---- MODULE Spec2Model ----
(***************************************************************************)
(* A model of the CODITECT installer: the launcher (launch.py), the CLI    *)
(* entry point and the installer core (install.py) and the GUI front-end   *)
(* (install_gui.py) with its UI thread, its worker threads and the queue   *)
(* between them.                                                           *)
(*                                                                         *)
(* One process is modelled from its start to its exit.  The environment    *)
(* the process runs in (platform, interpreter version, existence of the    *)
(* environment directory and of requirements.txt, importability of         *)
(* tkinter, the command line) is chosen in Init; the results of external   *)
(* commands, of shutil.rmtree and of input(), and what the operator does   *)
(* with the window, are chosen when the code reaches them.                 *)
(***************************************************************************)
EXTENDS Integers, Sequences, FiniteSets, TLC

VARIABLES
    script,               \* which file is executed: "install.py" or "launch.py"
    argv,                 \* the set of flags on the command line
    version_info,         \* sys.version_info as <<major, minor, micro>>
    tkinter_importable,   \* whether `import tkinter` succeeds
    requirements_exists,  \* whether project_root/requirements.txt exists
    venv,                 \* the environment directory (venv_path) on disk
    venv_initial,         \* the environment directory when the process started
    pc,                   \* position of the main thread
    args,                 \* the namespace parse_args returned
    ipc,                  \* position inside a CrossPlatformInstaller method
    iret,                 \* what the last CrossPlatformInstaller method returned
    force_recreate,       \* create_venv's parameter
    answer,               \* the line input() returned at the recreate prompt
    response,             \* create_venv's local `response`
    run_args,             \* run's parameters venv_only and deps_only
    run_ret,              \* what CrossPlatformInstaller.run returned
    printed_error,        \* the last message given to print_error
    effects,              \* history: every side effect of the run, in order
    constructed,          \* number of CrossPlatformInstaller() constructed
    gui_probes,           \* number of check_gui_available() calls
    gui_started,          \* install_gui.main() was called
    cli_started,          \* launch_cli() was called
    fallback,             \* launch_gui's except branch was taken
    exit_code,            \* the process exit status, -1 while running
    os_type,              \* platform.system()
    printed_hint,         \* launch.py printed the tkinter installation hint
    venv_pip,             \* install_dependencies' local `venv_pip`
    venv_python,          \* install_dependencies' local `venv_python`
    activation_cmd,       \* the local `activation_cmd` of the summary
    window,               \* the root window: "none", "open" or "destroyed"
    installing,           \* InstallerGUI.installing
    installation_complete, \* InstallerGUI.installation_complete
    install_button,       \* state and text of InstallerGUI.install_button
    progress_label,       \* text of InstallerGUI.progress_label
    progress_bar,         \* InstallerGUI.progress_bar
    log_text,             \* lines of InstallerGUI.log_text
    message_queue,        \* InstallerGUI.message_queue
    threads,              \* position of every worker thread started so far
    askyesno,             \* the confirmation dialog of _close_application is open
    messagebox,           \* the dialog open inside _process_messages
    close_confirmed,      \* the operator answered yes to askyesno
    emitted,              \* history: every message put on the queue, in order
    handled,              \* history: every message the UI thread handled, in order
    after_pending         \* root.after callbacks of _process_messages not yet run

vars == << script, argv, version_info, tkinter_importable, requirements_exists,
           venv, venv_initial, pc, args, ipc, iret, force_recreate, answer,
           response, run_args, run_ret, printed_error, effects, constructed,
           gui_probes, gui_started, cli_started, fallback, exit_code,
           os_type, printed_hint, venv_pip, venv_python, activation_cmd,
           window, installing, installation_complete, install_button,
           progress_label, progress_bar, log_text, message_queue, threads,
           askyesno, messagebox, close_confirmed, emitted, handled,
           after_pending >>

-----------------------------------------------------------------------------
(* Bounds and input domains *)

\* longest line the operator types at the recreate prompt
MaxAnswerLen == 2

\* characters the operator may type
AnswerChars == {"y", "Y", "n", " "}

\* every line of at most MaxAnswerLen characters
Answers == UNION { [1..n -> AnswerChars] : n \in 0..MaxAnswerLen }

\* interpreter versions the process may run under
Versions == { <<3, 6, 15>>, <<3, 7, 9>>, <<3, 8, 0>>, <<3, 11, 2>> }

Flags == {"--gui", "--cli", "--venv-only", "--deps-only"}

Scripts == {"install.py", "launch.py"}

\* states of the environment directory: absent, as it was before the run
\* ("old"), freshly created by `python -m venv` ("new"), or left half
\* written or half deleted ("partial")
VenvStates == {"absent", "old", "new", "partial"}

\* self.venv_path.exists()
VenvExists == venv # "absent"

\* values of platform.system(); "FreeBSD" stands for every value the code
\* does not name
OsTypes == {"Windows", "Darwin", "Linux", "FreeBSD"}

-----------------------------------------------------------------------------
(* Pure functions *)

\* Python's tuple comparison a < b: lexicographic, a proper prefix is smaller
RECURSIVE TupleLess(_, _)
TupleLess(a, b) ==
    IF b = << >> THEN FALSE
    ELSE IF a = << >> THEN TRUE
    ELSE IF Head(a) < Head(b) THEN TRUE
    ELSE IF Head(a) > Head(b) THEN FALSE
    ELSE TupleLess(Tail(a), Tail(b))

\* the minimum supported interpreter version, the (3, 8) of the version check
MinVersion == <<3, 8>>

\* mutant: only the major version is compared
CheckPythonVersionMajorOnly(v) == v[1] >= 3

\* check_python_version's success flag
CheckPythonVersion(v) == ~TupleLess(v, MinVersion)

Whitespace == {" ", "\t"}

\* str.strip(): drop leading and trailing whitespace
RECURSIVE LStrip(_)
LStrip(s) ==
    IF s # << >> /\ Head(s) \in Whitespace THEN LStrip(Tail(s)) ELSE s

RECURSIVE RStrip(_)
RStrip(s) ==
    IF s # << >> /\ s[Len(s)] \in Whitespace
    THEN RStrip(SubSeq(s, 1, Len(s) - 1))
    ELSE s

Strip(s) == RStrip(LStrip(s))

\* str.lower() on one character of the alphabet
LowerChar(c) ==
    CASE c = "Y" -> "y"
      [] c = "N" -> "n"
      [] OTHER   -> c

Lower(s) == [i \in 1..Len(s) |-> LowerChar(s[i])]

\* input(...).strip().lower()
NormalizeResponse(line) == Lower(Strip(line))

\* mutant: every response but 'n' counts as consent
AcceptsUnlessNo(resp) == resp # <<"n">>

\* the test `response == 'y'`
Accepts(resp) == resp = <<"y">>

\* argparse: install.py knows --venv-only and --deps-only; launch.py knows all
\* four flags and puts --gui and --cli in a mutually exclusive group.  A
\* command line argparse rejects ends the process with status 2.
ParseArgs(s, flags) ==
    [ ok        |-> IF s = "install.py"
                    THEN flags \subseteq {"--venv-only", "--deps-only"}
                    ELSE ~({"--gui", "--cli"} \subseteq flags),
      gui       |-> "--gui" \in flags,
      cli       |-> "--cli" \in flags,
      venv_only |-> "--venv-only" \in flags,
      deps_only |-> "--deps-only" \in flags ]

\* the namespace before parse_args has run
NoArgs == [ok |-> FALSE, gui |-> FALSE, cli |-> FALSE,
           venv_only |-> FALSE, deps_only |-> FALSE]

\* run's and launch_cli's default parameters
DefaultRunArgs == [venv_only |-> FALSE, deps_only |-> FALSE]

\* one entry of the history of side effects
Eff(op, res) == [op |-> op, res |-> res]

\* results of subprocess.run: exit status 0, a non-zero exit status
\* (CalledProcessError under check=True), or OSError because the executable
\* could not be started
CmdResults == {"ok", "fail", "raise"}

\* results of the import probe: it runs venv_python, which line 159 has just
\* run, so it starts; it exits with status 0 or with a non-zero status
ProbeResults == {"ok", "fail"}

\* the messages print_error is given
ErrVersion == "Python 3.8+ required"
ErrVenvCreate == "Failed to create virtual environment"
ErrVenvMissing == "Virtual environment not found"
ErrDeps == "Dependency installation failed"

-----------------------------------------------------------------------------
(* The platform resolver.  A path is the sequence of its components; a      *)
(* command line is the text before the path and the path.                   *)

\* lines 51-53: project_root is the parent of the directory of install.py
project_root == << "project_root" >>

\* line 53: self.venv_path = self.project_root / "venv"
venv_path == project_root \o << "venv" >>

\* a local that was not assigned yet
NoPath == << >>

NoCommand == [prefix |-> "unset", path |-> NoPath]

\* lines 60-64
get_python_executable(os) == IF os = "Windows" THEN "python" ELSE "python3"

\* lines 66-70
get_venv_activation_command(os) ==
    IF os = "Windows"
    THEN [prefix |-> "", path |-> venv_path \o << "Scripts", "activate.bat" >>]
    ELSE [prefix |-> "source ", path |-> venv_path \o << "bin", "activate" >>]

\* lines 72-76
get_venv_python(os) ==
    IF os = "Windows"
    THEN venv_path \o << "Scripts", "python.exe" >>
    ELSE venv_path \o << "bin", "python" >>

\* mutant: only Linux gets the Unix-style layout
get_venv_pip_linux_only(os) ==
    IF os = "Linux"
    THEN venv_path \o << "bin", "pip" >>
    ELSE venv_path \o << "Scripts", "pip.exe" >>

\* lines 78-82
get_venv_pip(os) ==
    IF os = "Windows"
    THEN venv_path \o << "Scripts", "pip.exe" >>
    ELSE venv_path \o << "bin", "pip" >>

-----------------------------------------------------------------------------
(* The widgets of InstallerGUI as _create_ui leaves them *)

\* lines 175-189: the action button
InitialButton == [state |-> "normal", text |-> "Install"]

\* lines 133-139
InitialProgressLabel == "Ready to install"

\* lines 207-212: the welcome lines
WelcomeLog == << "Welcome to the CODITECT Framework Installer!",
                 "Detected platform: {os_type} {os_version}",
                 "Python version: {python_version}",
                 "",
                 "Click 'Install' to begin setup." >>

-----------------------------------------------------------------------------
Init ==
    /\ script \in Scripts
    /\ argv \in SUBSET Flags
    /\ version_info \in Versions
    /\ tkinter_importable \in BOOLEAN
    /\ requirements_exists \in BOOLEAN
    /\ venv \in {"absent", "old"}
    /\ venv_initial = venv
    /\ pc = "start"
    /\ args = NoArgs
    /\ ipc = "idle"
    /\ iret = "none"
    /\ force_recreate = FALSE
    /\ answer = << >>
    /\ response = << >>
    /\ run_args = DefaultRunArgs
    /\ run_ret = "none"
    /\ printed_error = "none"
    /\ effects = << >>
    /\ constructed = 0
    /\ gui_probes = 0
    /\ gui_started = FALSE
    /\ cli_started = FALSE
    /\ fallback = FALSE
    /\ exit_code = -1
    /\ os_type \in OsTypes
    /\ printed_hint = FALSE
    /\ venv_pip = NoPath
    /\ venv_python = NoPath
    /\ activation_cmd = NoCommand
    /\ window = "none"
    /\ installing = FALSE
    /\ installation_complete = FALSE
    /\ install_button = InitialButton
    /\ progress_label = InitialProgressLabel
    /\ progress_bar = "indeterminate"
    /\ log_text = << >>
    /\ message_queue = << >>
    /\ threads = << >>
    /\ askyesno = FALSE
    /\ messagebox = "none"
    /\ close_confirmed = FALSE
    /\ emitted = << >>
    /\ handled = << >>
    /\ after_pending = 0

-----------------------------------------------------------------------------
(* Groups of variables an action leaves alone *)

inputs == << script, argv, version_info, tkinter_importable,
             requirements_exists, venv_initial, os_type >>

\* the state of the window and its widgets, owned by the UI thread
ui_vars == << window, installing, installation_complete, install_button,
              progress_label, progress_bar, log_text, askyesno, messagebox,
              close_confirmed, handled, after_pending >>

\* the state the GUI adds to the process
gui_vars == << ui_vars, message_queue, threads, emitted >>

\* values the platform resolver returned to its callers
resolved == << venv_pip, venv_python, activation_cmd >>

launcher_vars == << args, gui_probes, gui_started, cli_started, fallback,
                    constructed, exit_code >>

run_vars == << pc, run_args, run_ret >>

\* print_error(m)
PrintError(m) == printed_error' = m

prompt_vars == << answer, response >>

\* a CrossPlatformInstaller method returns `r` to its caller
Return(r) == ipc' = "returned" /\ iret' = r

-----------------------------------------------------------------------------
(* CrossPlatformInstaller.create_venv *)

\* lines 116-125: the existence test and the force_recreate branch
CreateVenvExists ==
    /\ ipc = "create_venv"
    /\ IF VenvExists
       THEN IF force_recreate
            THEN ipc' = "cv_rmtree"
            ELSE ipc' = "cv_input"
       ELSE ipc' = "cv_subprocess"
    /\ UNCHANGED << inputs, gui_vars, printed_hint, resolved,
                    launcher_vars, run_vars, prompt_vars, venv, iret,
                    force_recreate, effects, printed_error >>

\* lines 126-132: the recreate prompt.  input() returns a line, or raises
\* EOFError when standard input is closed.
CreateVenvInput ==
    /\ ipc = "cv_input"
    /\ \/ \E line \in Answers :
            /\ answer' = line
            /\ response' = NormalizeResponse(line)
            /\ effects' = Append(effects, Eff("input", "ok"))
            /\ IF Accepts(response')
               THEN ipc' = "cv_rmtree" /\ UNCHANGED iret
               ELSE Return("True")
       \/ /\ effects' = Append(effects, Eff("input", "raise"))
          /\ Return("raise")
          /\ UNCHANGED prompt_vars
    /\ UNCHANGED << inputs, gui_vars, printed_hint, resolved,
                    launcher_vars, run_vars, venv, force_recreate,
                    printed_error >>

\* mutant: the directory is not removed before it is created again
CreateVenvRmtreeSkipped ==
    /\ ipc = "cv_rmtree"
    /\ ipc' = "cv_subprocess"
    /\ UNCHANGED << inputs, gui_vars, printed_hint, resolved,
                    launcher_vars, run_vars, prompt_vars, venv, iret,
                    force_recreate, effects, printed_error >>

\* lines 123 and 129: shutil.rmtree(self.venv_path).  It removes the
\* directory, or raises OSError having removed nothing or a part of it.
CreateVenvRmtree ==
    /\ ipc = "cv_rmtree"
    /\ \/ /\ venv' = "absent"
          /\ effects' = Append(effects, Eff("rmtree", "ok"))
          /\ ipc' = "cv_subprocess"
          /\ UNCHANGED iret
       \/ /\ venv' \in {venv, "partial"}
          /\ effects' = Append(effects, Eff("rmtree", "raise"))
          /\ Return("raise")
    /\ UNCHANGED << inputs, gui_vars, printed_hint, resolved,
                    launcher_vars, run_vars, prompt_vars,
                    force_recreate, printed_error >>

\* mutant: check=True is missing, create_venv returns True after a non-zero
\* exit status
CreateVenvSubprocessUnchecked ==
    /\ ipc = "cv_subprocess"
    /\ \E res \in CmdResults :
          /\ effects' = Append(effects, Eff("venv", res))
          /\ CASE res = "ok" ->
                    venv' = "new" /\ Return("True") /\ UNCHANGED printed_error
               [] res = "fail" ->
                    /\ venv' \in {venv, "partial"}
                    /\ Return("True")
                    /\ UNCHANGED printed_error
               [] res = "raise" ->
                    venv' = venv /\ Return("raise") /\ UNCHANGED printed_error
    /\ UNCHANGED << inputs, gui_vars, printed_hint, resolved,
                    launcher_vars, run_vars, prompt_vars,
                    force_recreate >>

\* lines 134-142: `python -m venv venv_path` with check=True
CreateVenvSubprocess ==
    /\ ipc = "cv_subprocess"
    /\ \E res \in CmdResults :
          /\ effects' = Append(effects, Eff("venv", res))
          /\ CASE res = "ok" ->
                    venv' = "new" /\ Return("True") /\ UNCHANGED printed_error
               [] res = "fail" ->
                    /\ venv' \in {venv, "partial"}
                    /\ PrintError(ErrVenvCreate)
                    /\ Return("False")
               [] res = "raise" ->
                    venv' = venv /\ Return("raise") /\ UNCHANGED printed_error
    /\ UNCHANGED << inputs, gui_vars, printed_hint, resolved,
                    launcher_vars, run_vars, prompt_vars,
                    force_recreate >>

-----------------------------------------------------------------------------
(* CrossPlatformInstaller.install_dependencies *)

\* mutant: the existence test of lines 149-151 is missing
InstallDepsCheckSkipped ==
    /\ ipc = "install_dependencies"
    /\ ipc' = "id_upgrade_pip"
    /\ UNCHANGED << inputs, gui_vars, printed_hint, resolved,
                    launcher_vars, run_vars, prompt_vars, venv, iret,
                    force_recreate, effects, printed_error >>

\* lines 144-151: the environment directory must exist
InstallDepsCheck ==
    /\ ipc = "install_dependencies"
    /\ IF ~VenvExists
       THEN PrintError(ErrVenvMissing) /\ Return("False")
       ELSE ipc' = "id_upgrade_pip" /\ UNCHANGED << iret, printed_error >>
    /\ UNCHANGED << inputs, gui_vars, printed_hint, resolved,
                    launcher_vars, run_vars, prompt_vars, venv,
                    force_recreate, effects >>

\* mutant: check=True is missing, a non-zero exit status goes unnoticed
InstallDepsUpgradePipUnchecked ==
    /\ ipc = "id_upgrade_pip"
    /\ venv_pip' = get_venv_pip(os_type)
    /\ venv_python' = get_venv_python(os_type)
    /\ \E res \in CmdResults :
          /\ effects' = Append(effects, Eff("pip_upgrade", res))
          /\ CASE res \in {"ok", "fail"} ->
                    ipc' = "id_requirements" /\ UNCHANGED << iret, printed_error >>
               [] res = "raise" ->
                    Return("raise") /\ UNCHANGED printed_error
    /\ UNCHANGED << inputs, gui_vars, printed_hint, activation_cmd,
                    launcher_vars, run_vars, prompt_vars, venv,
                    force_recreate >>

\* lines 153-164 and 194-196: `venv_python -m pip install --upgrade pip`
InstallDepsUpgradePip ==
    /\ ipc = "id_upgrade_pip"
    /\ venv_pip' = get_venv_pip(os_type)
    /\ venv_python' = get_venv_python(os_type)
    /\ \E res \in CmdResults :
          /\ effects' = Append(effects, Eff("pip_upgrade", res))
          /\ CASE res = "ok" ->
                    ipc' = "id_requirements" /\ UNCHANGED << iret, printed_error >>
               [] res = "fail" ->
                    PrintError(ErrDeps) /\ Return("False")
               [] res = "raise" ->
                    Return("raise") /\ UNCHANGED printed_error
    /\ UNCHANGED << inputs, gui_vars, printed_hint, activation_cmd,
                    launcher_vars, run_vars, prompt_vars, venv,
                    force_recreate >>

\* mutant: the existence test of line 168 is missing
InstallDepsRequirementsAlways ==
    /\ ipc = "id_requirements"
    /\ \E res \in CmdResults :
          /\ effects' = Append(effects, Eff("pip_install", res))
          /\ CASE res = "ok" ->
                    ipc' = "id_verify" /\ UNCHANGED << iret, printed_error >>
               [] res = "fail" ->
                    PrintError(ErrDeps) /\ Return("False")
               [] res = "raise" ->
                    Return("raise") /\ UNCHANGED printed_error
    /\ UNCHANGED << inputs, gui_vars, printed_hint, resolved,
                    launcher_vars, run_vars, prompt_vars, venv,
                    force_recreate >>

\* mutant: a missing manifest is an error
InstallDepsRequirementsStrict ==
    /\ ipc = "id_requirements"
    /\ IF requirements_exists
       THEN \E res \in CmdResults :
               /\ effects' = Append(effects, Eff("pip_install", res))
               /\ CASE res = "ok" ->
                         ipc' = "id_verify" /\ UNCHANGED << iret, printed_error >>
                    [] res = "fail" ->
                         PrintError(ErrDeps) /\ Return("False")
                    [] res = "raise" ->
                         Return("raise") /\ UNCHANGED printed_error
       ELSE PrintError(ErrDeps) /\ Return("False") /\ UNCHANGED effects
    /\ UNCHANGED << inputs, gui_vars, printed_hint, resolved,
                    launcher_vars, run_vars, prompt_vars, venv,
                    force_recreate >>

\* lines 166-177 and 194-196: `venv_pip install -r requirements.txt` when the
\* manifest exists, else a warning and success
InstallDepsRequirements ==
    /\ ipc = "id_requirements"
    /\ IF requirements_exists
       THEN \E res \in CmdResults :
               /\ effects' = Append(effects, Eff("pip_install", res))
               /\ CASE res = "ok" ->
                         ipc' = "id_verify" /\ UNCHANGED << iret, printed_error >>
                    [] res = "fail" ->
                         PrintError(ErrDeps) /\ Return("False")
                    [] res = "raise" ->
                         Return("raise") /\ UNCHANGED printed_error
       ELSE Return("True") /\ UNCHANGED << effects, printed_error >>
    /\ UNCHANGED << inputs, gui_vars, printed_hint, resolved,
                    launcher_vars, run_vars, prompt_vars, venv,
                    force_recreate >>

\* mutant: the inner handler of lines 189-190 is missing, the outer one
\* catches the probe's CalledProcessError
InstallDepsVerifyStrict ==
    /\ ipc = "id_verify"
    /\ \E res \in ProbeResults :
          /\ effects' = Append(effects, Eff("import_probe", res))
          /\ CASE res = "ok"   -> Return("True") /\ UNCHANGED printed_error
               [] res = "fail" -> PrintError(ErrDeps) /\ Return("False")
    /\ UNCHANGED << inputs, gui_vars, printed_hint, resolved,
                    launcher_vars, run_vars, prompt_vars, venv,
                    force_recreate >>

\* lines 179-192: `venv_python -c 'import git; ...'`; CalledProcessError is
\* caught by the inner handler and becomes a warning
InstallDepsVerify ==
    /\ ipc = "id_verify"
    /\ \E res \in ProbeResults :
          /\ effects' = Append(effects, Eff("import_probe", res))
          /\ CASE res = "ok"   -> Return("True")
               [] res = "fail" -> Return("True")
    /\ UNCHANGED << inputs, gui_vars, printed_hint, resolved,
                    launcher_vars, run_vars, prompt_vars, venv,
                    force_recreate, printed_error >>

-----------------------------------------------------------------------------
(* CrossPlatformInstaller.run *)

core_vars == << ipc, iret, force_recreate, answer, response, venv, effects,
               printed_error >>

\* run returns `r` (or lets an exception escape) to whoever called it
RunReturns(r) == pc' = "run_returned" /\ run_ret' = r

\* lines 225-233: header and version check
RunCheckVersion ==
    /\ pc = "run_check_version"
    /\ IF CheckPythonVersion(version_info)
       THEN pc' = "run_create_venv" /\ UNCHANGED << run_ret, printed_error >>
       ELSE PrintError(ErrVersion) /\ RunReturns("return 1")
    /\ UNCHANGED << inputs, gui_vars, printed_hint, resolved,
                    launcher_vars, run_args, ipc, iret, force_recreate,
                    answer, response, venv, effects >>

\* mutant: create_venv() is called whatever deps_only says
RunCreateVenvAlways ==
    /\ pc = "run_create_venv"
    /\ pc' = "run_create_venv_wait"
    /\ ipc' = "create_venv"
    /\ force_recreate' = FALSE
    /\ UNCHANGED << inputs, gui_vars, printed_hint, resolved,
                    launcher_vars, run_args, run_ret, iret, answer,
                    response, venv, effects, printed_error >>

\* lines 235-237: `if not deps_only:` calls create_venv()
RunCreateVenv ==
    /\ pc = "run_create_venv"
    /\ IF ~run_args.deps_only
       THEN /\ pc' = "run_create_venv_wait"
            /\ ipc' = "create_venv"
            /\ force_recreate' = FALSE
       ELSE /\ pc' = "run_install_deps"
            /\ UNCHANGED << ipc, force_recreate >>
    /\ UNCHANGED << inputs, gui_vars, printed_hint, resolved,
                    launcher_vars, run_args, run_ret, iret, answer,
                    response, venv, effects, printed_error >>

\* lines 237-238: create_venv() came back
RunCreateVenvReturn ==
    /\ pc = "run_create_venv_wait"
    /\ ipc = "returned"
    /\ ipc' = "idle"
    /\ CASE iret = "True"  -> pc' = "run_install_deps" /\ UNCHANGED run_ret
         [] iret = "False" -> RunReturns("return 1")
         [] iret = "raise" -> RunReturns("raise")
    /\ UNCHANGED << inputs, gui_vars, printed_hint, resolved,
                    launcher_vars, run_args, iret, force_recreate,
                    answer, response, venv, effects, printed_error >>

\* lines 240-242: `if not venv_only:` calls install_dependencies()
RunInstallDeps ==
    /\ pc = "run_install_deps"
    /\ IF ~run_args.venv_only
       THEN pc' = "run_install_deps_wait" /\ ipc' = "install_dependencies"
       ELSE pc' = "run_next_steps" /\ UNCHANGED ipc
    /\ UNCHANGED << inputs, gui_vars, printed_hint, resolved,
                    launcher_vars, run_args, run_ret, iret,
                    force_recreate, answer, response, venv, effects,
                    printed_error >>

\* lines 242-243: install_dependencies() came back
RunInstallDepsReturn ==
    /\ pc = "run_install_deps_wait"
    /\ ipc = "returned"
    /\ ipc' = "idle"
    /\ CASE iret = "True"  -> pc' = "run_next_steps" /\ UNCHANGED run_ret
         [] iret = "False" -> RunReturns("return 1")
         [] iret = "raise" -> RunReturns("raise")
    /\ UNCHANGED << inputs, gui_vars, printed_hint, resolved,
                    launcher_vars, run_args, iret, force_recreate,
                    answer, response, venv, effects, printed_error >>

\* lines 245-247: print_next_steps() and `return 0`
RunNextSteps ==
    /\ pc = "run_next_steps"
    /\ effects' = Append(effects, Eff("next_steps", "ok"))
    /\ activation_cmd' = get_venv_activation_command(os_type)
    /\ RunReturns("return 0")
    /\ UNCHANGED << inputs, gui_vars, printed_hint, venv_pip, venv_python,
                    launcher_vars, run_args, ipc, iret,
                    force_recreate, answer, response, venv, printed_error >>

-----------------------------------------------------------------------------
(* install.py: main and the `sys.exit(main())` around it *)

\* the process ends with status `code`
Exit(code) == pc' = "exited" /\ exit_code' = code

\* mutant: the handler of launch_cli does not call sys.exit(1)
ExitStatusOfReturn(r) == IF r = "return 1" THEN 1 ELSE 0

\* the exit status after run: its return value, or 1 when an exception
\* escaped (launch_cli's handler calls sys.exit(1); an uncaught exception in
\* install.py ends the interpreter with status 1)
ExitStatus(r) == IF r = "return 0" THEN 0 ELSE 1

\* mutant: the conflict is only looked for outside --cli mode
ModeFlagsConflictUnlessCli(a) == a.venv_only /\ a.deps_only /\ ~a.cli

\* install.py line 288 and launch.py line 143: both mode flags are set
ModeFlagsConflict(a) == a.venv_only /\ a.deps_only

\* lines 250-294 up to the call of run
InstallMain ==
    /\ pc = "start"
    /\ script = "install.py"
    /\ args' = ParseArgs(script, argv)
    /\ IF ~args'.ok
       THEN Exit(2) /\ UNCHANGED << constructed, run_args >>
       ELSE IF ModeFlagsConflict(args')
       THEN Exit(1) /\ UNCHANGED << constructed, run_args >>
       ELSE /\ constructed' = constructed + 1
            /\ run_args' = [venv_only |-> args'.venv_only,
                            deps_only |-> args'.deps_only]
            /\ pc' = "run_check_version"
            /\ UNCHANGED exit_code
    /\ UNCHANGED << inputs, gui_vars, printed_hint, resolved,
                    core_vars, run_ret, gui_probes, gui_started,
                    cli_started, fallback >>

\* lines 294 and 298: run's value becomes the exit status
InstallExit ==
    /\ pc = "run_returned"
    /\ script = "install.py"
    /\ Exit(ExitStatus(run_ret))
    /\ UNCHANGED << inputs, gui_vars, printed_hint, resolved,
                    core_vars, run_args, run_ret, args, constructed,
                    gui_probes, gui_started, cli_started, fallback >>

-----------------------------------------------------------------------------
(* launch.py *)

\* mutant: --gui excuses a CLI-only flag
CliFlagWithoutCliUnlessGui(a) ==
    (a.venv_only \/ a.deps_only) /\ ~a.cli /\ ~a.gui

\* lines 138-141: a CLI-only flag without --cli
CliFlagWithoutCli(a) == (a.venv_only \/ a.deps_only) /\ ~a.cli

\* lines 150-178: whether main calls check_gui_available()
ProbesGui(a) == a.gui \/ ~a.cli

\* mutant: the test of line 169 is inverted
DispatchAutoInverted(a, available) ==
    IF a.gui
    THEN IF ~available THEN "return 1" ELSE "launch_gui"
    ELSE IF a.cli
    THEN "launch_cli"
    ELSE IF ~available THEN "launch_gui" ELSE "launch_cli"

\* mutant: the test of line 153 is missing, --gui launches the GUI whatever
\* check_gui_available() says
DispatchForcedUnchecked(a, available) ==
    IF a.gui
    THEN "launch_gui"
    ELSE IF a.cli
    THEN "launch_cli"
    ELSE IF available THEN "launch_gui" ELSE "launch_cli"

\* lines 150-178: where main goes, given the namespace and the result of
\* check_gui_available(): "launch_gui", "launch_cli" or "return 1"
Dispatch(a, available) ==
    IF a.gui
    THEN IF ~available THEN "return 1" ELSE "launch_gui"
    ELSE IF a.cli
    THEN "launch_cli"
    ELSE IF available THEN "launch_gui" ELSE "launch_cli"

\* lines 165 and 178: the parameters main gives launch_cli
LaunchCliArgs(a) ==
    IF a.cli
    THEN [venv_only |-> a.venv_only, deps_only |-> a.deps_only]
    ELSE DefaultRunArgs

\* lines 86-180: parse, validate, print the banner and dispatch
LaunchMain ==
    /\ pc = "start"
    /\ script = "launch.py"
    /\ args' = ParseArgs(script, argv)
    /\ IF ~args'.ok
       THEN Exit(2) /\ UNCHANGED << gui_probes, run_args, printed_hint >>
       ELSE IF CliFlagWithoutCli(args')
       THEN Exit(1) /\ UNCHANGED << gui_probes, run_args, printed_hint >>
       ELSE IF ModeFlagsConflict(args')
       THEN Exit(1) /\ UNCHANGED << gui_probes, run_args, printed_hint >>
       ELSE /\ gui_probes' = IF ProbesGui(args') THEN gui_probes + 1
                                                ELSE gui_probes
            /\ LET target == Dispatch(args', tkinter_importable) IN
               IF target = "return 1"
               THEN /\ printed_hint' = TRUE
                    /\ Exit(1)
                    /\ UNCHANGED run_args
               ELSE /\ pc' = target
                    /\ run_args' = IF target = "launch_cli"
                                   THEN LaunchCliArgs(args')
                                   ELSE run_args
                    /\ UNCHANGED << exit_code, printed_hint >>
    /\ UNCHANGED << inputs, gui_vars, resolved,
                    core_vars, run_ret, constructed, gui_started,
                    cli_started, fallback >>

\* lines 51-60: launch_gui calls install_gui.main(), which builds the window
\* and arms the first poll (install_gui.py lines 402-419 and 56-77); an
\* exception raised while the
\* window is built (tk.Tk() without a display) is caught and launch_cli()
\* is called with its default parameters
LaunchGui ==
    /\ pc = "launch_gui"
    /\ gui_started' = TRUE
    /\ \/ /\ pc' = "gui_mainloop"
          /\ window' = "open"
          /\ log_text' = WelcomeLog
          /\ after_pending' = 1
          /\ UNCHANGED << fallback, run_args >>
       \/ /\ fallback' = TRUE
          /\ run_args' = DefaultRunArgs
          /\ pc' = "launch_cli"
          /\ UNCHANGED << window, log_text, after_pending >>
    /\ UNCHANGED << inputs, printed_hint, resolved, core_vars, run_ret, args,
                    constructed, gui_probes, cli_started, exit_code,
                    installing, installation_complete, install_button,
                    progress_label, progress_bar, askyesno, messagebox,
                    close_confirmed, handled, message_queue, threads,
                    emitted >>

\* lines 63-70: launch_cli constructs the installer and calls run
LaunchCli ==
    /\ pc = "launch_cli"
    /\ cli_started' = TRUE
    /\ constructed' = constructed + 1
    /\ pc' = "run_check_version"
    /\ UNCHANGED << inputs, gui_vars, printed_hint, resolved,
                    core_vars, run_args, run_ret, args, gui_probes,
                    gui_started, fallback, exit_code >>

\* lines 71-74: sys.exit(exit_code), or sys.exit(1) from the handler
LaunchCliExit ==
    /\ pc = "run_returned"
    /\ script = "launch.py"
    /\ Exit(ExitStatus(run_ret))
    /\ UNCHANGED << inputs, gui_vars, printed_hint, resolved,
                    core_vars, run_args, run_ret, args, constructed,
                    gui_probes, gui_started, cli_started, fallback >>

-----------------------------------------------------------------------------
(* install_gui.py: the worker thread, InstallerGUI._run_installation.       *)
(* A thread's position is the line it executes next.                         *)

\* installation attempts started in one process
MaxRuns == 2

\* lines 252-291: the puts that nothing but the previous line guards, by
\* the first line of each straight run of them.  The worker reads nothing
\* between two puts of a run, and a poll that came between them would
\* handle first what the next poll handles anyway, so a run is one step
Put == [ l252 |-> << << "log", "Starting installation..." >>,
                     << "log", "" >>,
                     << "progress", "Checking Python version..." >>,
                     << "log", "Checking Python version..." >> >>,
         l265 |-> << << "log", "" >>,
                     << "progress", "Creating virtual environment..." >>,
                     << "log", "Creating virtual environment..." >> >>,
         l277 |-> << << "log", "" >>,
                     << "progress", "Installing dependencies..." >>,
                     << "log", "Installing dependencies..." >> >>,
         l288 |-> << << "log", "" >> >>,
         l291 |-> << << "success", "Installation complete!" >> >> ]

\* the line that follows each run
After == [ l252 |-> "l259", l265 |-> "l271", l277 |-> "l283",
           l288 |-> "l291", l291 |-> "returned" ]

\* line 261
MsgVersion == << "error", "Python 3.8+ required (found {version})" >>

\* line 264
MsgVersionOk == << "log", "Python version OK" >>

\* line 273
MsgVenvFailed == << "error", "Failed to create virtual environment" >>

\* line 276
MsgVenvCreated == << "log", "Virtual environment created" >>

\* line 284
MsgDepsFailed == << "error", "Failed to install dependencies" >>

\* line 287
MsgDepsInstalled == << "log", "Dependencies installed" >>

\* line 294
MsgException == << "error", "Installation failed: {str(e)}" >>

\* positions of a thread that still executes _run_installation
Running == DOMAIN Put \cup {"l259", "l271", "l272", "l283", "l284"}

ThreadPcs == Running \cup {"returned", "killed"}

\* self.message_queue.put(m) for every m of ms, after which thread t is at
\* `next`
PutThen(t, ms, next) ==
    /\ message_queue' = message_queue \o ms
    /\ emitted' = emitted \o ms
    /\ threads' = [threads EXCEPT ![t] = next]

\* what a step of the worker leaves alone besides the installer's state
worker_frame == << inputs, ui_vars, printed_hint, args, gui_probes,
                   gui_started, cli_started, fallback, exit_code, run_vars >>

\* mutant: the worker writes its log lines into the log view itself
WorkerPutAndLog(t) ==
    /\ pc = "gui_mainloop"
    /\ threads[t] \in DOMAIN Put
    /\ PutThen(t, Put[threads[t]], After[threads[t]])
    /\ log_text' = Append(log_text, Put[threads[t]][1][2])
    /\ UNCHANGED << inputs, printed_hint, args, gui_probes, gui_started,
                    cli_started, fallback, exit_code, run_vars, core_vars,
                    constructed, resolved, window, installing,
                    installation_complete, install_button, progress_label,
                    progress_bar, askyesno, messagebox, close_confirmed,
                    handled, after_pending >>

\* lines 252-257, 265-269, 277-281, 288, 291: one run of puts
WorkerPut(t) ==
    /\ pc = "gui_mainloop"
    /\ threads[t] \in DOMAIN Put
    /\ PutThen(t, Put[threads[t]], After[threads[t]])
    /\ UNCHANGED << worker_frame, core_vars, constructed, resolved >>

\* lines 259-264: the version test and the message of its outcome
WorkerCheckVersion(t) ==
    /\ pc = "gui_mainloop"
    /\ threads[t] = "l259"
    /\ IF ~CheckPythonVersion(version_info)
       THEN PutThen(t, << MsgVersion >>, "returned")
       ELSE PutThen(t, << MsgVersionOk >>, "l265")
    /\ UNCHANGED << worker_frame, core_vars, constructed, resolved >>

\* mutant: the worker calls create_venv(force_recreate=True)
WorkerCreateVenvForced(t) ==
    /\ pc = "gui_mainloop"
    /\ threads[t] = "l271"
    /\ ipc = "idle"
    /\ constructed' = constructed + 1
    /\ ipc' = "create_venv"
    /\ force_recreate' = TRUE
    /\ threads' = [threads EXCEPT ![t] = "l272"]
    /\ UNCHANGED << worker_frame, iret, answer, response, venv, effects,
                    printed_error,
                    resolved, message_queue, emitted >>

\* lines 271-272: CrossPlatformInstaller() and the call of create_venv()
WorkerCreateVenv(t) ==
    /\ pc = "gui_mainloop"
    /\ threads[t] = "l271"
    /\ ipc = "idle"
    /\ constructed' = constructed + 1
    /\ ipc' = "create_venv"
    /\ force_recreate' = FALSE
    /\ threads' = [threads EXCEPT ![t] = "l272"]
    /\ UNCHANGED << worker_frame, iret, answer, response, venv, effects,
                    printed_error,
                    resolved, message_queue, emitted >>

\* lines 272-276 and 293-294: create_venv() came back and its locals are gone
WorkerCreateVenvReturn(t) ==
    /\ pc = "gui_mainloop"
    /\ threads[t] = "l272"
    /\ ipc = "returned"
    /\ ipc' = "idle"
    /\ CASE iret = "True"  -> PutThen(t, << MsgVenvCreated >>, "l277")
         [] iret = "False" -> PutThen(t, << MsgVenvFailed >>, "returned")
         [] iret = "raise" -> PutThen(t, << MsgException >>, "returned")
    /\ answer' = << >>
    /\ response' = << >>
    /\ UNCHANGED << worker_frame, iret, force_recreate, venv, effects,
                    printed_error, constructed, resolved >>

\* line 283: the call of install_dependencies()
WorkerInstallDeps(t) ==
    /\ pc = "gui_mainloop"
    /\ threads[t] = "l283"
    /\ ipc = "idle"
    /\ ipc' = "install_dependencies"
    /\ threads' = [threads EXCEPT ![t] = "l284"]
    /\ UNCHANGED << worker_frame, iret, force_recreate, answer, response,
                    venv, effects, printed_error, constructed, resolved,
                    message_queue, emitted >>

\* mutant: no except clause; an exception in install_dependencies() ends
\* the thread without a message
WorkerInstallDepsReturnUncaught(t) ==
    /\ pc = "gui_mainloop"
    /\ threads[t] = "l284"
    /\ ipc = "returned"
    /\ ipc' = "idle"
    /\ CASE iret = "True"  -> PutThen(t, << MsgDepsInstalled >>, "l288")
         [] iret = "False" -> PutThen(t, << MsgDepsFailed >>, "returned")
         [] iret = "raise" -> PutThen(t, << >>, "returned")
    /\ UNCHANGED << worker_frame, iret, force_recreate, answer, response,
                    venv, effects, printed_error, constructed, resolved >>

\* lines 283-287 and 293-294: install_dependencies() came back
WorkerInstallDepsReturn(t) ==
    /\ pc = "gui_mainloop"
    /\ threads[t] = "l284"
    /\ ipc = "returned"
    /\ ipc' = "idle"
    /\ CASE iret = "True"  -> PutThen(t, << MsgDepsInstalled >>, "l288")
         [] iret = "False" -> PutThen(t, << MsgDepsFailed >>, "returned")
         [] iret = "raise" -> PutThen(t, << MsgException >>, "returned")
    /\ UNCHANGED << worker_frame, iret, force_recreate, answer, response,
                    venv, effects, printed_error, constructed, resolved >>

-----------------------------------------------------------------------------
(* install_gui.py: the UI thread.  Its callbacks run one at a time from     *)
(* the event loop; a modal dialog keeps the callback that opened it on the  *)
(* stack and serves timers, but no click on the window, until it is         *)
(* answered.                                                                 *)

\* what the handlers of _process_messages read and write
UiState ==
    [ installing            |-> installing,
      installation_complete |-> installation_complete,
      install_button        |-> install_button,
      progress_label        |-> progress_label,
      progress_bar          |-> progress_bar,
      log_text              |-> log_text,
      messagebox            |-> messagebox,
      handled               |-> handled,
      activation_cmd        |-> activation_cmd,
      constructed           |-> constructed ]

\* the handlers leave the UI in state u
SetUi(u) ==
    /\ installing' = u.installing
    /\ installation_complete' = u.installation_complete
    /\ install_button' = u.install_button
    /\ progress_label' = u.progress_label
    /\ progress_bar' = u.progress_bar
    /\ log_text' = u.log_text
    /\ messagebox' = u.messagebox
    /\ handled' = u.handled
    /\ activation_cmd' = u.activation_cmd
    /\ constructed' = u.constructed

\* mutant: _log_message inserts nothing
LogMessageDropped(u, line) == u

\* lines 214-219: _log_message
LogMessage(u, line) == [u EXCEPT !.log_text = Append(@, line)]

\* lines 221-223: _update_progress
UpdateProgress(u, text) == [u EXCEPT !.progress_label = text]

\* lines 326-350: the lines _installation_success writes to the log
SuccessLog(os) ==
    << "", "====", "Installation Complete!", "====", "",
       "Next steps:", "", "1. Activate the virtual environment:",
       "   {activation_cmd}", "",
       "2. Run tests to verify installation:",
       IF os = "Windows"
       THEN "   python tests/core/test_memory_context_integration.py"
       ELSE "   python3 tests/core/test_memory_context_integration.py",
       "", "3. Deactivate when done:", "   deactivate" >>

\* lines 374-377: the lines _installation_error writes to the log
ErrorLog(text) == << "", "====", text, "====" >>

\* mutant: the button is configured before the dialog is shown
InstallationSuccessButtonFirst(u, text) ==
    [u EXCEPT !.installing = FALSE,
              !.installation_complete = TRUE,
              !.progress_bar = "determinate 100",
              !.progress_label = text,
              !.log_text = @ \o SuccessLog(os_type),
              !.constructed = @ + 1,
              !.activation_cmd = get_venv_activation_command(os_type),
              !.install_button = [state |-> "normal", text |-> "Reinstall"],
              !.messagebox = "showinfo"]

\* lines 317-356: _installation_success up to the dialog it opens
InstallationSuccess(u, text) ==
    [u EXCEPT !.installing = FALSE,
              !.installation_complete = TRUE,
              !.progress_bar = "determinate 100",
              !.progress_label = text,
              !.log_text = @ \o SuccessLog(os_type),
              !.constructed = @ + 1,
              !.activation_cmd = get_venv_activation_command(os_type),
              !.messagebox = "showinfo"]

\* lines 365-384: _installation_error up to the dialog it opens
InstallationError(u, text) ==
    [u EXCEPT !.installing = FALSE,
              !.progress_bar = "stopped",
              !.progress_label = "Installation failed",
              !.log_text = @ \o ErrorLog(text),
              !.messagebox = "showerror"]

\* lines 302-309: the handler of one message
Handle(u, m) ==
    LET v == [u EXCEPT !.handled = Append(@, m)] IN
    CASE m[1] = "log"      -> LogMessage(v, m[2])
      [] m[1] = "progress" -> UpdateProgress(v, m[2])
      [] m[1] = "success"  -> InstallationSuccess(v, m[2])
      [] m[1] = "error"    -> InstallationError(v, m[2])
      [] OTHER             -> v

\* mutant: the queue hands out the newest message first
GetNowaitLifo(q) ==
    [message |-> q[Len(q)], rest |-> SubSeq(q, 1, Len(q) - 1)]

\* line 300: get_nowait() takes the oldest message off the queue
GetNowait(q) == [message |-> Head(q), rest |-> Tail(q)]

\* lines 298-312: the loop of _process_messages: it handles message after
\* message until the queue is empty or a handler waits in its dialog (the
\* singleton sets bind what one pass of the loop leaves before the next)
RECURSIVE Drain(_, _)
Drain(u, q) ==
    IF q = << >> \/ u.messagebox # "none"
    THEN [ui |-> u, queue |-> q]
    ELSE LET g == GetNowait(q) IN
             CHOOSE r \in { Drain(h, t) : h \in { Handle(u, g.message) },
                                          t \in { g.rest } } : TRUE

\* mutant: the error handler re-labels the button as the success handler does
AfterDialogAlwaysRelabels(u) ==
    [u EXCEPT !.messagebox = "none",
              !.install_button = [state |-> "normal", text |-> "Reinstall"]]

\* the message handled last was a terminal one
LastWasTerminal(u) ==
    /\ u.handled # << >>
    /\ u.handled[Len(u.handled)][1] \in {"success", "error"}

\* lines 359-363 and 387: what the handler does when its dialog is closed
AfterDialog(u) ==
    [u EXCEPT !.messagebox = "none",
              !.install_button =
                  IF u.messagebox = "showinfo"
                  THEN [state |-> "normal", text |-> "Reinstall"]
                  ELSE [@ EXCEPT !.state = "normal"]]

\* what a callback of the UI thread leaves alone besides the widgets
ui_frame == << inputs, printed_hint, args, gui_probes, gui_started,
               cli_started, fallback, exit_code, run_vars, core_vars,
               venv_pip, venv_python, threads, emitted >>

\* the window takes clicks: it is open and no dialog is
Clickable ==
    /\ pc = "gui_mainloop"
    /\ window = "open"
    /\ ~askyesno
    /\ messagebox = "none"

\* what the model remembers of a run is forgotten when the next one begins:
\* the side effects, the last error printed, the values of the locals of
\* the calls that returned, and the messages already handled
StartHistories ==
    /\ effects' = << >>
    /\ printed_error' = "none"
    /\ venv_pip' = NoPath
    /\ venv_python' = NoPath
    /\ activation_cmd' = NoCommand
    /\ emitted' = message_queue
    /\ handled' = << >>

\* mutant: _start_installation neither tests `installing` nor disables the
\* button
StartInstallationReentrant ==
    /\ Clickable
    /\ install_button.state = "normal"
    /\ Len(threads) < MaxRuns
    /\ installing' = TRUE
    /\ installation_complete' = FALSE
    /\ log_text' = << >>
    /\ progress_bar' = "running"
    /\ threads' = Append(threads, "l252")
    /\ StartHistories
    /\ UNCHANGED << inputs, printed_hint, launcher_vars, run_vars,
                    ipc, iret, force_recreate, answer, response, venv,
                    window, install_button, progress_label,
                    askyesno, messagebox, close_confirmed, message_queue,
                    after_pending >>

\* lines 225-247: a click on the action button, which Tk delivers while
\* the button is enabled; a run that begins starts the histories afresh
StartInstallation ==
    /\ Clickable
    /\ install_button.state = "normal"
    /\ Len(threads) < MaxRuns
    /\ IF installing
       THEN UNCHANGED << installing, installation_complete, install_button,
                         log_text, progress_bar, threads, effects,
                         printed_error, resolved, emitted, handled >>
       ELSE /\ install_button' = [install_button EXCEPT !.state = "disabled"]
            /\ installing' = TRUE
            /\ installation_complete' = FALSE
            /\ log_text' = << >>
            /\ progress_bar' = "running"
            /\ threads' = Append(threads, "l252")
            /\ StartHistories
    /\ UNCHANGED << inputs, printed_hint, launcher_vars, run_vars,
                    ipc, iret, force_recreate, answer, response, venv,
                    window, progress_label, askyesno,
                    messagebox, close_confirmed, message_queue,
                    after_pending >>

\* mutant: line 315 is not reached once a handler has shown its dialog
RescheduleUnlessDialog(n, u) ==
    IF u.messagebox = "none" /\ ~LastWasTerminal(u) THEN n + 1 ELSE n

\* line 315: when the loop has ended, with the queue empty,
\* _process_messages arms the timer for its next call; while a handler
\* waits in its dialog the loop has not ended
Reschedule(n, u) == IF u.messagebox = "none" THEN n + 1 ELSE n

\* lines 296-315: a pending timer fires and _process_messages runs.  A run
\* that finds the queue empty arms the timer again and changes nothing
ProcessMessages ==
    /\ pc = "gui_mainloop"
    /\ window = "open"
    /\ after_pending > 0
    /\ message_queue # << >>
    /\ LET r == Drain(UiState, message_queue) IN
          /\ SetUi(r.ui)
          /\ message_queue' = r.queue
          /\ after_pending' = Reschedule(after_pending - 1, r.ui)
    /\ UNCHANGED << ui_frame, window, askyesno, close_confirmed >>

\* lines 352-363 and 380-387: the operator closes the dialog; the handler
\* finishes and the loop of _process_messages goes on
DismissMessagebox ==
    /\ pc = "gui_mainloop"
    /\ window = "open"
    /\ messagebox # "none"
    /\ LET r == Drain(AfterDialog(UiState), message_queue) IN
          /\ SetUi(r.ui)
          /\ message_queue' = r.queue
          /\ after_pending' = Reschedule(after_pending, r.ui)
    /\ UNCHANGED << ui_frame, window, askyesno, close_confirmed >>

\* self.root.destroy()
Destroy == window' = "destroyed"

\* lines 191-205 and 389-399: a click on the Close button
CloseApplication ==
    /\ Clickable
    /\ IF installing
       THEN askyesno' = TRUE /\ UNCHANGED window
       ELSE Destroy /\ UNCHANGED askyesno
    /\ UNCHANGED << ui_frame, installing, installation_complete,
                    install_button, progress_label, progress_bar, log_text,
                    messagebox, close_confirmed, handled, message_queue,
                    activation_cmd, constructed, after_pending >>

\* lines 391-399: the operator answers the confirmation
AnswerAskyesno ==
    /\ pc = "gui_mainloop"
    /\ window = "open"
    /\ askyesno
    /\ messagebox = "none"
    /\ askyesno' = FALSE
    /\ \E r \in BOOLEAN :
          /\ close_confirmed' = r
          /\ IF ~r THEN UNCHANGED window ELSE Destroy
    /\ UNCHANGED << ui_frame, installing, installation_complete,
                    install_button, progress_label, progress_bar, log_text,
                    messagebox, handled, message_queue, activation_cmd,
                    constructed, after_pending >>

\* lines 402-422: main installs no handler for the window manager's close
\* request, so Tk's own applies: the title bar's close button destroys the
\* root window
WindowManagerClose ==
    /\ Clickable
    /\ Destroy
    /\ UNCHANGED << ui_frame, installing, installation_complete,
                    install_button, progress_label, progress_bar, log_text,
                    askyesno, messagebox, close_confirmed, handled,
                    message_queue, activation_cmd, constructed,
                    after_pending >>

\* a daemon thread ends with the process
Kill(p) == IF p \in Running THEN "killed" ELSE p

\* install_gui.py lines 421-422, launch.py lines 180 and 185: the window is
\* destroyed, mainloop, install_gui.main and launch_gui return, main
\* returns 0 and the process ends, the daemon thread with it
GuiMainloopReturn ==
    /\ pc = "gui_mainloop"
    /\ window = "destroyed"
    /\ Exit(0)
    /\ threads' = [t \in DOMAIN threads |-> Kill(threads[t])]
    /\ ipc' = "idle"
    /\ UNCHANGED << inputs, ui_vars, message_queue, emitted, printed_hint,
                    resolved, iret, force_recreate, answer, response, venv,
                    effects, printed_error, run_args, run_ret, args,
                    constructed, gui_probes, gui_started, cli_started,
                    fallback >>

-----------------------------------------------------------------------------
Next ==
    \/ InstallMain
    \/ InstallExit
    \/ LaunchMain
    \/ LaunchGui
    \/ GuiMainloopReturn
    \/ StartInstallation
    \/ ProcessMessages
    \/ DismissMessagebox
    \/ CloseApplication
    \/ AnswerAskyesno
    \/ WindowManagerClose
    \/ \E t \in DOMAIN threads : WorkerPut(t)
    \/ \E t \in DOMAIN threads : WorkerCheckVersion(t)
    \/ \E t \in DOMAIN threads : WorkerCreateVenv(t)
    \/ \E t \in DOMAIN threads : WorkerCreateVenvReturn(t)
    \/ \E t \in DOMAIN threads : WorkerInstallDeps(t)
    \/ \E t \in DOMAIN threads : WorkerInstallDepsReturn(t)
    \/ LaunchCli
    \/ LaunchCliExit
    \/ RunCheckVersion
    \/ RunCreateVenv
    \/ RunCreateVenvReturn
    \/ RunInstallDeps
    \/ RunInstallDepsReturn
    \/ RunNextSteps
    \/ CreateVenvExists
    \/ CreateVenvInput
    \/ CreateVenvRmtree
    \/ CreateVenvSubprocess
    \/ InstallDepsCheck
    \/ InstallDepsUpgradePip
    \/ InstallDepsRequirements
    \/ InstallDepsVerify

Spec == Init /\ [][Next]_vars

TypeOK ==
    /\ script \in Scripts
    /\ argv \subseteq Flags
    /\ version_info \in Versions
    /\ venv \in VenvStates
    /\ venv_initial \in {"absent", "old"}
    /\ ipc \in {"idle", "create_venv", "cv_input", "cv_rmtree", "cv_subprocess",
                "install_dependencies", "id_upgrade_pip", "id_requirements",
                "id_verify", "returned"}
    /\ iret \in {"none", "True", "False", "raise"}
    /\ run_ret \in {"none", "return 0", "return 1", "raise"}
    /\ exit_code \in {-1, 0, 1, 2}
    /\ (pc = "exited") = (exit_code # -1)
    /\ constructed \in 0..(2 * MaxRuns)
    /\ gui_probes \in 0..1
    /\ os_type \in OsTypes
    /\ window \in {"none", "open", "destroyed"}
    /\ installing \in BOOLEAN
    /\ installation_complete \in BOOLEAN
    /\ install_button.state \in {"normal", "disabled"}
    /\ install_button.text \in {"Install", "Reinstall"}
    /\ progress_bar \in {"indeterminate", "running", "stopped",
                          "determinate 100"}
    /\ messagebox \in {"none", "showinfo", "showerror"}
    /\ askyesno \in BOOLEAN
    /\ close_confirmed \in BOOLEAN
    /\ after_pending \in 0..1
    /\ Len(threads) <= MaxRuns
    /\ \A t \in DOMAIN threads : threads[t] \in ThreadPcs

-----------------------------------------------------------------------------
(* Vocabulary of the properties *)

\* the side effect `op` has happened
Invoked(op) == \E i \in 1..Len(effects) : effects[i].op = op

\* how often the side effect `op` has happened
Count(op) == Cardinality({i \in 1..Len(effects) : effects[i].op = op})

\* the result of the first `op`, "none" when there was none
Result(op) ==
    IF Invoked(op)
    THEN effects[CHOOSE i \in 1..Len(effects) :
                    /\ effects[i].op = op
                    /\ \A j \in 1..(i - 1) : effects[j].op # op].res
    ELSE "none"

\* the external commands
Commands == {"venv", "pip_upgrade", "pip_install", "import_probe"}

\* the commands of the package installer phase
PipCommands == {"pip_upgrade", "pip_install", "import_probe"}

NoCommandInvoked == \A c \in Commands : ~Invoked(c)

\* positions of the main thread inside CrossPlatformInstaller.run
RunPcs == {"run_check_version", "run_create_venv", "run_create_venv_wait",
           "run_install_deps", "run_install_deps_wait", "run_next_steps"}

\* CrossPlatformInstaller.run has been called
RunStarted == pc \in RunPcs \/ run_ret # "none"

\* the run ended in state Done: the summary was printed and run returned 0
Done == run_ret = "return 0" /\ Invoked("next_steps")

\* the interpreter is older than 3.8
VersionBelowMin ==
    \/ version_info[1] < 3
    \/ version_info[1] = 3 /\ version_info[2] < 8

-----------------------------------------------------------------------------
(* C1 *)

\* the command line is one the parser accepts and sets both mode flags
BothModeFlags ==
    /\ ParseArgs(script, argv).ok
    /\ {"--venv-only", "--deps-only"} \subseteq argv

\* C1: a command line with both --venv-only and --deps-only (install.py, or
\* launch.py with --cli, with --gui or with neither) ends the process with
\* exit code 1 in its first step; no installer is constructed, no front-end
\* is started, nothing is deleted, created or invoked.
C1_BothModeFlagsExitOne ==
    BothModeFlags =>
        /\ pc \in {"start", "exited"}
        /\ pc = "exited" => exit_code = 1
        /\ constructed = 0
        /\ ~gui_started /\ ~cli_started
        /\ effects = << >>
        /\ venv = venv_initial

C1_Witness ==
    /\ BothModeFlags
    /\ script = "launch.py"
    /\ "--cli" \in argv
    /\ venv_initial = "old"
    /\ pc = "exited"
    /\ exit_code = 1

-----------------------------------------------------------------------------
(* C2 *)

\* a run in dependencies-only mode with the environment directory absent
DepsOnlyNoVenv ==
    /\ RunStarted
    /\ run_args.deps_only
    /\ venv_initial = "absent"

\* C2 as stated: with the environment directory absent, a dependencies-only
\* run exits with code 1 and the missing-environment message, invokes no
\* command and leaves the directory absent.
C2_MissingVenvOutcome ==
    DepsOnlyNoVenv =>
        /\ NoCommandInvoked
        /\ venv = "absent"
        /\ pc = "exited" => exit_code = 1 /\ printed_error = ErrVenvMissing

\* C2 amended: with the environment directory absent, a dependencies-only
\* run exits with code 1, causes no side effect at all and leaves the
\* directory absent; its message is the missing-environment one when the
\* interpreter is 3.8 or later and the version one otherwise.
C2_MissingVenvNoCommands ==
    DepsOnlyNoVenv =>
        /\ effects = << >>
        /\ venv = "absent"
        /\ pc = "exited" =>
              /\ exit_code = 1
              /\ printed_error = IF VersionBelowMin THEN ErrVersion
                                                    ELSE ErrVenvMissing

C2_Witness ==
    /\ DepsOnlyNoVenv
    /\ pc = "exited"
    /\ exit_code = 1
    /\ printed_error = ErrVenvMissing

-----------------------------------------------------------------------------
(* C3 *)

\* the operator was asked and the answer, as create_venv compares it, is not y
Declined ==
    /\ Result("input") = "ok"
    /\ response # <<"y">>

\* C3: in a run of CrossPlatformInstaller.run, when the directory exists and
\* the operator declines, create_venv
\* deletes nothing and invokes no environment creation, the directory stays
\* as it was, create_venv returns True and run goes on to the next phase:
\* the dependency phase starts, or in environment-only mode run ends Done.
C3_DeclineKeepsVenv ==
    RunStarted /\ Declined =>
        /\ venv_initial = "old" /\ venv = "old"
        /\ ~Invoked("rmtree") /\ ~Invoked("venv")
        /\ printed_error # ErrVenvCreate
        /\ pc = "run_create_venv_wait" => ipc = "returned" /\ iret = "True"
        /\ pc \in {"run_returned", "exited"} =>
              IF run_args.venv_only THEN Done ELSE Invoked("pip_upgrade")

C3_Witness ==
    /\ Declined
    /\ answer = <<" ">>
    /\ pc = "exited"
    /\ exit_code = 0
    /\ Invoked("pip_upgrade")
    /\ venv = "old"

-----------------------------------------------------------------------------
(* C4 *)

\* install_dependencies has returned to run and run has not yet gone on
DepsReturned == pc = "run_install_deps_wait" /\ ipc = "returned"

\* C4 as stated: with the environment directory present and no manifest,
\* install_dependencies returns True and never invokes the manifest install.
C4_NoManifestSucceeds ==
    (~requirements_exists /\ VenvExists) =>
        /\ ~Invoked("pip_install")
        /\ DepsReturned => iret = "True"

\* C4 amended: with the environment directory present and no manifest,
\* install_dependencies never invokes the manifest install (nor the import
\* probe), and it returns True exactly when the upgrade of the package
\* installer succeeded; a failed upgrade is still a failure of the phase.
C4_NoManifestNoInstall ==
    (~requirements_exists /\ VenvExists) =>
        /\ ~Invoked("pip_install")
        /\ ~Invoked("import_probe")
        /\ DepsReturned =>
              /\ iret = "True" <=> Result("pip_upgrade") = "ok"
              /\ iret = "False" <=> Result("pip_upgrade") = "fail"
              /\ iret = "False" => printed_error = ErrDeps

C4_Witness ==
    /\ ~requirements_exists
    /\ VenvExists
    /\ DepsReturned
    /\ iret = "True"
    /\ Result("pip_upgrade") = "ok"
    /\ ~Invoked("pip_install")

-----------------------------------------------------------------------------
(* C5 *)

\* C5: under an interpreter older than 3.8, whatever the mode, run goes from
\* the version check straight to `return 1`: no side effect ever happens, the
\* environment directory stays as it was, and a process that called run
\* exits with code 1 after the version message.
C5_OldVersionFailsFirst ==
    VersionBelowMin =>
        /\ effects = << >>
        /\ venv = venv_initial
        /\ ipc = "idle"
        /\ pc \notin RunPcs \ {"run_check_version"}
        /\ run_ret \in {"none", "return 1"}
        /\ run_ret = "return 1" => printed_error = ErrVersion
        /\ (RunStarted /\ pc = "exited") => exit_code = 1

C5_Witness ==
    /\ version_info = <<3, 7, 9>>
    /\ RunStarted
    /\ run_args.venv_only
    /\ venv_initial = "absent"
    /\ pc = "exited"
    /\ exit_code = 1

-----------------------------------------------------------------------------
(* C6 *)

\* a finished full-mode run under a supported interpreter, without manifest
\* and with the environment directory absent at the start
FullRunNoManifestNoVenv ==
    /\ RunStarted
    /\ ~run_args.venv_only /\ ~run_args.deps_only
    /\ ~VersionBelowMin
    /\ ~requirements_exists
    /\ venv_initial = "absent"
    /\ pc = "exited"

\* C6 as stated: such a run creates the environment, ends Done and exits
\* with code 0.
C6_ScenarioEndsDone ==
    FullRunNoManifestNoVenv =>
        /\ venv = "new"
        /\ Done
        /\ exit_code = 0

\* C6 amended: such a run ends Done with exit code 0 exactly when the
\* environment-creation command and the upgrade of the package installer
\* both succeed; then the environment is created and the dependency phase
\* succeeds without a manifest install or an import probe.  When one of the
\* two commands fails the run exits with code 1.
C6_ScenarioDoneIfCommandsSucceed ==
    FullRunNoManifestNoVenv =>
        /\ ~Invoked("input") /\ ~Invoked("rmtree")
        /\ ~Invoked("pip_install") /\ ~Invoked("import_probe")
        /\ exit_code \in {0, 1}
        /\ exit_code = 0 <=>
              (Result("venv") = "ok" /\ Result("pip_upgrade") = "ok")
        /\ exit_code = 0 => (venv = "new" /\ Done)

C6_Witness ==
    /\ FullRunNoManifestNoVenv
    /\ script = "install.py"
    /\ version_info = <<3, 11, 2>>
    /\ venv = "new"
    /\ Done
    /\ exit_code = 0

-----------------------------------------------------------------------------
(* C7 *)

\* the i-th side effect is a failure that ends the run: a command with a
\* non-zero exit status or one that could not be started, a failed rmtree or
\* input; the import probe's exit status does not count
Failure(i) ==
    /\ effects[i].res \in {"fail", "raise"}
    /\ ~(effects[i].op = "import_probe" /\ effects[i].res = "fail")

\* C7: in a CLI run a failure is the last side effect (no later command, no
\* retry, no summary), no command is invoked twice, a failed version check
\* leaves no side effect, the process then exits with code 1, and it exits
\* with code 0 only in state Done with every side effect successful.
C7_FailureIsTerminal ==
    RunStarted =>
        /\ \A i \in 1..Len(effects) : Failure(i) => i = Len(effects)
        /\ \A c \in Commands : Count(c) <= 1
        /\ printed_error = ErrVersion => effects = << >>
        /\ printed_error # "none" => ~Invoked("next_steps")
        /\ (pc = "exited" /\ (printed_error # "none" \/
                               \E i \in 1..Len(effects) : Failure(i)))
              => exit_code = 1
        /\ (pc = "exited" /\ exit_code = 0) =>
              /\ Done
              /\ printed_error = "none"
              /\ \A i \in 1..Len(effects) : ~Failure(i)
              /\ effects[Len(effects)].op = "next_steps"

C7_Witness ==
    /\ RunStarted
    /\ Result("venv") = "ok"
    /\ Result("pip_upgrade") = "ok"
    /\ Result("pip_install") = "fail"
    /\ ~Invoked("import_probe")
    /\ ~Invoked("next_steps")
    /\ pc = "exited"
    /\ exit_code = 1

-----------------------------------------------------------------------------
(* C8 *)

\* C8: a run in environment-only mode never invokes a command of the package
\* installer (upgrade, manifest install, import probe); a run in
\* dependencies-only mode never invokes the environment creation, never
\* prompts, never deletes the directory and leaves it as it was.
C8_ModesGatePhases ==
    /\ run_args.venv_only =>
          \A c \in PipCommands : ~Invoked(c)
    /\ run_args.deps_only =>
          /\ ~Invoked("venv")
          /\ ~Invoked("input")
          /\ ~Invoked("rmtree")
          /\ venv = venv_initial

C8_Witness ==
    /\ run_args.venv_only
    /\ venv_initial = "absent"
    /\ Result("venv") = "ok"
    /\ Done
    /\ pc = "exited"
    /\ exit_code = 0

-----------------------------------------------------------------------------
(* C9 *)

\* the upgrade and the manifest install succeeded and the probe has run
ProbeRan ==
    /\ Result("pip_upgrade") = "ok"
    /\ Result("pip_install") = "ok"
    /\ Invoked("import_probe")

\* C9: in a run of CrossPlatformInstaller.run, once the upgrade and the
\* manifest install have succeeded,
\* install_dependencies returns True whether the import probe exits with
\* status 0 or not, nothing is reported as an error, and the run ends Done
\* with exit code 0.
C9_ProbeFailureIsWarning ==
    RunStarted /\ ProbeRan =>
        /\ printed_error = "none"
        /\ iret = "True"
        /\ pc \in {"run_install_deps_wait", "run_next_steps", "run_returned",
                   "exited"}
        /\ pc \in {"run_returned", "exited"} => Done
        /\ pc = "exited" => exit_code = 0

C9_Witness ==
    /\ ProbeRan
    /\ Result("import_probe") = "fail"
    /\ Done
    /\ pc = "exited"
    /\ exit_code = 0

-----------------------------------------------------------------------------
(* C10 *)

\* launch.py was started without any flag and main has dispatched
AutoMode ==
    /\ script = "launch.py"
    /\ argv = {}
    /\ pc # "start"

\* C10 as stated: in auto mode the launcher probes the toolkit once; if it
\* is available the GUI front-end runs and the CLI front-end is not started,
\* otherwise the CLI front-end runs in full mode and the GUI does not.
C10_AutoDispatchExclusive ==
    AutoMode =>
        /\ gui_probes = 1
        /\ run_args = DefaultRunArgs
        /\ IF tkinter_importable
           THEN /\ pc # "launch_gui" => gui_started
                /\ ~cli_started
           ELSE /\ pc # "launch_cli" => cli_started
                /\ pc # "launch_gui"
                /\ ~gui_started

\* C10 amended: in auto mode the launcher probes the toolkit once; if it is
\* available the GUI front-end runs, and the CLI front-end is started only as
\* launch_gui's fallback after the GUI front-end raised an exception;
\* otherwise the CLI front-end runs and the GUI does not.  Whenever the CLI
\* front-end runs it runs in full mode.
C10_AutoDispatchWithFallback ==
    AutoMode =>
        /\ gui_probes = 1
        /\ run_args = DefaultRunArgs
        /\ IF tkinter_importable
           THEN /\ pc # "launch_gui" => gui_started
                /\ pc = "launch_cli" => fallback
                /\ cli_started => fallback
                /\ fallback => gui_started
           ELSE /\ pc # "launch_cli" => cli_started
                /\ pc # "launch_gui"
                /\ ~gui_started
                /\ ~fallback

C10_Witness ==
    /\ AutoMode
    /\ tkinter_importable
    /\ gui_started
    /\ ~cli_started
    /\ constructed = 0
    /\ pc = "exited"
    /\ exit_code = 0

-----------------------------------------------------------------------------
(* C11 *)

\* launch.py was given --gui alone and tkinter cannot be imported
ForcedGuiUnavailable ==
    /\ script = "launch.py"
    /\ argv = {"--gui"}
    /\ ~tkinter_importable

\* neither front-end was started and nothing of an installation happened
NothingStarted ==
    /\ ~gui_started /\ ~cli_started
    /\ window = "none" /\ threads = << >>
    /\ constructed = 0
    /\ effects = << >>
    /\ ipc = "idle" /\ run_ret = "none"
    /\ venv = venv_initial

\* C11: when --gui forces the GUI and tkinter is not importable, the
\* launcher's first step probes the toolkit, prints the installation hint
\* and ends the process with exit code 1; neither front-end is started, no
\* installer is constructed and no side effect of an installation happens.
C11_ForcedGuiUnavailableFails ==
    ForcedGuiUnavailable /\ pc # "start" =>
        /\ pc = "exited" /\ exit_code = 1
        /\ printed_hint
        /\ gui_probes = 1
        /\ NothingStarted

C11_Witness ==
    /\ ForcedGuiUnavailable
    /\ pc = "exited"
    /\ exit_code = 1
    /\ printed_hint

-----------------------------------------------------------------------------
(* C12 *)

\* launch.py was given --venv-only or --deps-only and no --cli
CliOnlyFlagNoCli ==
    /\ script = "launch.py"
    /\ argv \cap {"--venv-only", "--deps-only"} # {}
    /\ "--cli" \notin argv

\* C12: when --venv-only or --deps-only comes without --cli, with or
\* without --gui, the launcher's first step ends the process with exit code
\* 1: the toolkit is not probed, no hint is printed, neither front-end is
\* started and no side effect of an installation happens.
C12_CliOnlyFlagNeedsCli ==
    CliOnlyFlagNoCli /\ pc # "start" =>
        /\ pc = "exited" /\ exit_code = 1
        /\ gui_probes = 0
        /\ ~printed_hint
        /\ NothingStarted

C12_Witness ==
    /\ CliOnlyFlagNoCli
    /\ "--gui" \in argv
    /\ tkinter_importable
    /\ pc = "exited"
    /\ exit_code = 1
    /\ gui_probes = 0

-----------------------------------------------------------------------------
(* C13 *)

\* the worker threads that still execute _run_installation
ActiveThreads == { t \in DOMAIN threads : threads[t] \in Running }

\* a run is in flight: its worker still runs, or messages it put, its
\* terminal message among them, wait on the queue
RunInFlight == ActiveThreads # {} \/ message_queue # << >>

\* C13: in every reachable state of the GUI at most one worker thread
\* executes _run_installation, and from the click that starts a run until
\* the UI thread has handled the run's terminal message the installing flag
\* is set and the action button is disabled.
C13_OneWorkerAtATime ==
    /\ Cardinality(ActiveThreads) <= 1
    /\ RunInFlight => installing /\ install_button.state = "disabled"

C13_Witness ==
    /\ Len(threads) = 2
    /\ threads[1] = "returned"
    /\ threads[2] = "l272"
    /\ ipc = "cv_subprocess"
    /\ askyesno
    /\ installing
    /\ install_button = [state |-> "disabled", text |-> "Reinstall"]

-----------------------------------------------------------------------------
(* C14 *)

\* a step of a worker thread: a thread that exists moves on, or the
\* installer it called does
WorkerStep ==
    \/ \E t \in DOMAIN threads :
          threads'[t] # threads[t] /\ threads'[t] # "killed"
    \/ pc = "gui_mainloop" /\ pc' = "gui_mainloop" /\ ipc' # ipc

\* q grew at its end, or stayed as it was
Extends(q, r) == Len(r) >= Len(q) /\ SubSeq(r, 1, Len(q)) = q

\* C14: no step of a worker thread changes the state the UI thread owns
\* (the window, the log view, the progress label and indicator, the action
\* button, the dialogs, the installing and installation_complete flags);
\* all a worker step does to the queue is append messages.  Every change of
\* UI state is therefore a step of the UI thread.
C14_SingleWriter ==
    [][WorkerStep => /\ UNCHANGED ui_vars
                     /\ Extends(message_queue, message_queue')]_vars

C14_Witness ==
    /\ Len(threads) = 1
    /\ threads[1] = "l291"
    /\ Len(handled) > 0
    /\ Len(message_queue) > 0
    /\ log_text # << >>
    /\ installing

-----------------------------------------------------------------------------
(* C15 *)

\* C15: the messages the UI thread has handled, followed by those still on
\* the queue, are exactly the messages the worker put, in the order it put
\* them: the UI handles them in emission order, none twice and none skipped.
C15_FifoConsumption == emitted = handled \o message_queue

C15_Witness ==
    /\ Len(handled) >= 5
    /\ Len(message_queue) >= 3
    /\ handled[1] # handled[2]
    /\ handled[Len(handled)] # message_queue[1]
    /\ ActiveThreads # {}

-----------------------------------------------------------------------------
(* C16 *)

\* the worker of the current run has put its success message
SuccessEmitted ==
    /\ emitted # << >>
    /\ emitted[Len(emitted)][1] = "success"

\* the tags of a sequence of messages
Types(ms) == [i \in DOMAIN ms |-> ms[i][1]]

\* the texts of the log messages of ms, in order
RECURSIVE LogLines(_)
LogLines(ms) ==
    IF ms = << >>
    THEN << >>
    ELSE IF Head(ms)[1] = "log"
    THEN << Head(ms)[2] >> \o LogLines(Tail(ms))
    ELSE LogLines(Tail(ms))

\* the UI has rendered every message of the run: all were handled, the log
\* view shows the log lines in order, followed by the summary, and the
\* progress label shows the text of the success message
Rendered ==
    /\ handled = emitted
    /\ message_queue = << >>
    /\ log_text = LogLines(emitted) \o SuccessLog(os_type)
    /\ progress_label = emitted[Len(emitted)][2]

\* C16 as stated: a successful run emits a log message, then a progress-text
\* update, then log messages only, then the one success message, and all of
\* them are rendered before the action button is enabled again.
C16_LogProgressLogsSuccess ==
    SuccessEmitted =>
        LET ty == Types(emitted)
            n  == Len(emitted)
        IN  /\ n >= 3
            /\ ty[1] = "log"
            /\ ty[2] = "progress"
            /\ \A i \in 3..(n - 1) : ty[i] = "log"
            /\ install_button.state = "normal" => Rendered

\* C16, amended: a successful run emits a log message first and the one
\* success message last; in between come only log messages and
\* progress-text updates, a progress-text update for each of the three
\* phases, each followed at once by a log message of the same text, and no
\* error message.  All of them are rendered before the action button is
\* enabled again.
C16_LogsAndProgressThenSuccess ==
    SuccessEmitted =>
        LET ty == Types(emitted)
            n  == Len(emitted)
        IN  /\ ty[1] = "log"
            /\ \A i \in 1..(n - 1) : ty[i] \in {"log", "progress"}
            /\ Cardinality({ i \in 1..n : ty[i] = "progress" }) = 3
            /\ \A i \in 1..(n - 1) :
                  ty[i] = "progress" =>
                      ty[i + 1] = "log" /\ emitted[i + 1][2] = emitted[i][2]
            /\ install_button.state = "normal" => Rendered

C16_Witness ==
    /\ SuccessEmitted
    /\ install_button = [state |-> "normal", text |-> "Reinstall"]
    /\ messagebox = "none"
    /\ Rendered
    /\ installation_complete

-----------------------------------------------------------------------------
(* C17 *)

\* C17: the window is destroyed while a run is in flight (the installing
\* flag is still set, as nothing clears it once the window is gone) only
\* after the operator answered yes to the confirmation dialog.
C17_CloseAlwaysConfirmed ==
    window = "destroyed" /\ installing => close_confirmed

-----------------------------------------------------------------------------
(* C18 *)

\* the directory a path lies in
Dir(p) == SubSeq(p, 1, Len(p) - 1)

\* the subdirectory of the environment directory the platform keeps its
\* executables in
EnvSubdir ==
    << "project_root", "venv",
       IF os_type = "Windows" THEN "Scripts" ELSE "bin" >>

\* C18: on every platform, Windows, Darwin, Linux or one the code does not
\* name, whatever the resolver has returned to its callers lies in one and
\* the same subdirectory of the environment directory, Scripts on Windows
\* and bin everywhere else: the in-environment interpreter and pip that
\* install_dependencies uses and the path of the activation command the
\* summary shows.
C18_ResolverConsistent ==
    /\ venv_python # NoPath => Dir(venv_python) = EnvSubdir
    /\ venv_pip # NoPath => Dir(venv_pip) = EnvSubdir
    /\ activation_cmd # NoCommand => Dir(activation_cmd.path) = EnvSubdir
    /\ venv_python # NoPath /\ activation_cmd # NoCommand =>
          /\ Dir(venv_python) = Dir(venv_pip)
          /\ Dir(venv_pip) = Dir(activation_cmd.path)

C18_Witness ==
    /\ os_type = "FreeBSD"
    /\ venv_python # NoPath
    /\ venv_pip # NoPath
    /\ activation_cmd # NoCommand
    /\ pc = "exited"
    /\ script = "install.py"

-----------------------------------------------------------------------------
(* C19 *)

\* the place of each external command in the fixed order
CommandRank ==
    [venv |-> 1, pip_upgrade |-> 2, pip_install |-> 3, import_probe |-> 4]

\* the side effects of the run that are external commands
CommandIndexes == { i \in 1..Len(effects) : effects[i].op \in Commands }

\* the version check of the run is behind: run is past lines 230-233, the
\* worker of the GUI past line 259
VersionChecked ==
    \/ RunStarted /\ pc # "run_check_version"
    \/ threads # << >> /\ threads[Len(threads)] \notin {"l252", "l259"}

\* C19: in every run, of the CLI or of the GUI, the external commands come
\* in the order environment creation, pip upgrade, manifest install, import
\* probe, none twice; a command is invoked only when the command invoked
\* before it ended with exit status 0; and a command is invoked only after
\* the version check, which the interpreter passed.
C19_CommandsInOrder ==
    /\ \A i, j \in CommandIndexes :
          i < j =>
              /\ CommandRank[effects[i].op] < CommandRank[effects[j].op]
              /\ effects[i].res = "ok"
    /\ CommandIndexes # {} => VersionChecked /\ ~VersionBelowMin

C19_Witness ==
    /\ Len(threads) = 2
    /\ Cardinality(CommandIndexes) = 4
    /\ Result("venv") = "ok"
    /\ Result("import_probe") = "fail"
    /\ \E i \in 1..Len(effects) : effects[i].op = "rmtree"

-----------------------------------------------------------------------------
(* C20 *)

\* the operator was asked and the answer, as create_venv compares it, is y
Accepted ==
    /\ Result("input") = "ok"
    /\ response = <<"y">>

\* the directory was removed and the environment-creation command that
\* followed ended with a non-zero exit status or could not be started
RecreateFailed ==
    \E j \in 2..Len(effects) :
        /\ effects[j - 1] = Eff("rmtree", "ok")
        /\ effects[j].op = "venv"
        /\ effects[j].res \in {"fail", "raise"}

\* C20: in a run in which the operator was asked (the directory existed)
\* and accepted, the environment-creation command is invoked only right
\* after rmtree removed the directory, which is absent when the command
\* starts.  If the command then fails, no pip command is invoked in the run,
\* the directory stays absent or half written, a CLI run returns 1 or
\* raises and the process exits with code 1, and a GUI run ends with an
\* error message.
C20_RecreateDeletesFirst ==
    /\ \A j \in 1..Len(effects) :
          effects[j].op = "venv" /\ Invoked("input") =>
              j >= 2 /\ effects[j - 1] = Eff("rmtree", "ok")
    /\ Accepted /\ ipc = "cv_subprocess" =>
          venv = "absent" /\ effects[Len(effects)] = Eff("rmtree", "ok")
    /\ RecreateFailed =>
          /\ \A c \in PipCommands : ~Invoked(c)
          /\ venv \in {"absent", "partial"}
          /\ RunStarted =>
                /\ pc \in {"run_create_venv_wait", "run_returned", "exited"}
                /\ run_ret \in {"none", "return 1", "raise"}
                /\ pc # "run_create_venv_wait" => run_ret # "none"
                /\ pc = "exited" => exit_code = 1
          /\ threads # << >> =>
                /\ threads[Len(threads)] \in {"l272", "returned", "killed"}
                /\ threads[Len(threads)] = "returned" =>
                      emitted[Len(emitted)][1] = "error"

C20_Witness ==
    /\ RecreateFailed
    /\ Accepted
    /\ answer = <<"Y", " ">>
    /\ venv_initial = "old"
    /\ venv = "absent"
    /\ Result("venv") = "fail"
    /\ pc = "exited"
    /\ exit_code = 1

-----------------------------------------------------------------------------
(* C21 *)

\* the last message the UI thread handled in this run has tag `ty`
LastHandled(ty) ==
    /\ handled # << >>
    /\ handled[Len(handled)][1] = ty

\* C21: once the UI thread has taken a success message, the progress
\* indicator is stopped and full, installing is cleared and
\* installation_complete set; while the confirmation dialog is open the
\* action button is still disabled, and once it is closed the button is
\* enabled and labelled Reinstall, with the indicator still at 100%.
C21_SuccessHandling ==
    /\ messagebox = "showinfo" => LastHandled("success")
    /\ LastHandled("success") =>
          /\ ~installing
          /\ installation_complete
          /\ progress_bar = "determinate 100"
          /\ progress_label = "Installation complete!"
          /\ messagebox \in {"none", "showinfo"}
          /\ messagebox = "showinfo" => install_button.state = "disabled"
          /\ messagebox = "none" =>
                install_button = [state |-> "normal", text |-> "Reinstall"]

C21_Witness ==
    /\ LastHandled("success")
    /\ messagebox = "none"
    /\ Len(threads) = 2
    /\ install_button = [state |-> "normal", text |-> "Reinstall"]
    /\ progress_bar = "determinate 100"

-----------------------------------------------------------------------------
(* C22 *)

\* C22: the step in which the UI thread takes an error message stops the
\* progress indicator, clears installing and opens the error dialog with
\* the action button as it was; the step that closes the dialog enables the
\* button and leaves its label alone; the click that starts a run leaves
\* the label alone too and clears installation_complete, which no step of a
\* failing run sets.  So after a failed run the button carries the label it
\* had before the run and installation_complete is false.
C22_ErrorHandling ==
    [][ /\ messagebox # "showerror" /\ messagebox' = "showerror" =>
              /\ ~installing'
              /\ progress_bar' = "stopped"
              /\ install_button' = install_button
              /\ install_button.state = "disabled"
              /\ ~installation_complete'
        /\ messagebox = "showerror" /\ messagebox' # "showerror" =>
              /\ install_button' = [install_button EXCEPT !.state = "normal"]
              /\ ~installing'
              /\ ~installation_complete'
              /\ progress_bar' = "stopped"
        /\ ~installing /\ installing' =>
              /\ install_button'.text = install_button.text
              /\ ~installation_complete' ]_vars

C22_Witness ==
    /\ LastHandled("error")
    /\ messagebox = "none"
    /\ Len(threads) = 2
    /\ install_button = [state |-> "normal", text |-> "Reinstall"]
    /\ ~installation_complete
    /\ ~installing
    /\ progress_bar = "stopped"

-----------------------------------------------------------------------------
(* C23 *)

\* a process that launch.py starts in auto mode with tkinter importable
GuiInit ==
    /\ Init
    /\ script = "launch.py"
    /\ argv = {}
    /\ tkinter_importable
    /\ os_type = "Linux"
    /\ version_info \in { <<3, 7, 9>>, <<3, 11, 2>> }

\* the steps of such a process as long as it stays in the GUI
GuiNext ==
    \/ LaunchMain
    \/ LaunchGui
    \/ GuiMainloopReturn
    \/ StartInstallation
    \/ ProcessMessages
    \/ DismissMessagebox
    \/ CloseApplication
    \/ AnswerAskyesno
    \/ WindowManagerClose
    \/ \E t \in DOMAIN threads : WorkerPut(t)
    \/ \E t \in DOMAIN threads : WorkerCheckVersion(t)
    \/ \E t \in DOMAIN threads : WorkerCreateVenv(t)
    \/ \E t \in DOMAIN threads : WorkerCreateVenvReturn(t)
    \/ \E t \in DOMAIN threads : WorkerInstallDeps(t)
    \/ \E t \in DOMAIN threads : WorkerInstallDepsReturn(t)
    \/ CreateVenvExists
    \/ CreateVenvInput
    \/ CreateVenvRmtree
    \/ CreateVenvSubprocess
    \/ InstallDepsCheck
    \/ InstallDepsUpgradePip
    \/ InstallDepsRequirements
    \/ InstallDepsVerify

\* the GUI with a fair event loop: a poll that can run does run, and the
\* operator closes a dialog that is open
FairSpec ==
    /\ GuiInit
    /\ [][GuiNext]_vars
    /\ WF_vars(ProcessMessages)
    /\ WF_vars(DismissMessagebox)

\* while the window exists, one call of _process_messages is pending,
\* except while a call is on the stack, its handler waiting in a dialog
OnePollPending ==
    window = "open" =>
        after_pending = IF messagebox = "none" THEN 1 ELSE 0

\* a step that handles messages ends with the queue empty, or with its
\* handler waiting in a dialog
PollDrains ==
    Len(handled') > Len(handled) =>
        (message_queue' = << >> \/ messagebox' # "none")

\* C23 as stated: one poll is pending whenever none is under way, a poll
\* drains the queue, and every message the worker enqueues is eventually
\* handled.  A worker outlives a window that is closed during its run, and
\* what it enqueues then is never handled.
C23_EveryMessageHandled ==
    /\ []OnePollPending
    /\ [][PollDrains]_vars
    /\ (message_queue # << >>) ~> (message_queue = << >>)

\* C23: as long as the window exists exactly one poll is pending whenever no
\* poll is under way, a poll handles messages until it finds the queue
\* empty, and, the event loop being fair and dialogs being closed, whatever
\* the worker has put on the queue is eventually taken off it and handled
\* for as long as the window exists.
C23_PollDrainsEverything ==
    /\ []OnePollPending
    /\ [][PollDrains]_vars
    /\ (message_queue # << >>) ~>
           (message_queue = << >> \/ window = "destroyed")

C23_Witness ==
    /\ window = "open"
    /\ Len(threads) = 2
    /\ after_pending = 1
    /\ Len(handled) >= 4
    /\ Len(message_queue) >= 3

-----------------------------------------------------------------------------
(* C24 *)

\* a step of the worker thread or of the installer call it is in
WorkerRuns ==
    \/ \E t \in DOMAIN threads : WorkerPut(t)
    \/ \E t \in DOMAIN threads : WorkerCheckVersion(t)
    \/ \E t \in DOMAIN threads : WorkerCreateVenv(t)
    \/ \E t \in DOMAIN threads : WorkerCreateVenvReturn(t)
    \/ \E t \in DOMAIN threads : WorkerInstallDeps(t)
    \/ \E t \in DOMAIN threads : WorkerInstallDepsReturn(t)
    \/ CreateVenvExists
    \/ CreateVenvInput
    \/ CreateVenvRmtree
    \/ CreateVenvSubprocess
    \/ InstallDepsCheck
    \/ InstallDepsUpgradePip
    \/ InstallDepsRequirements
    \/ InstallDepsVerify

\* the GUI with a fair event loop and a worker thread that is scheduled and
\* whose external commands and prompt return
FairRunSpec ==
    /\ FairSpec
    /\ WF_vars(WorkerRuns)

Terminal(m) == m[1] \in {"success", "error"}

Terminals(ms) == { i \in DOMAIN ms : Terminal(ms[i]) }

\* the run begun last: what it has enqueued holds no terminal message while
\* it executes and, once it has finished, exactly one, in the last place;
\* the runs before it have ended
OneTerminalLast ==
    threads # << >> =>
        /\ threads[Len(threads)] \in Running => Terminals(emitted) = { }
        /\ threads[Len(threads)] = "returned" =>
               /\ emitted # << >>
               /\ Terminals(emitted) = { Len(emitted) }
        /\ \A t \in 1 .. Len(threads) - 1 : threads[t] \notin Running

\* a run begins with an empty queue
StartsClean == (~installing /\ installing') => message_queue = << >>

\* C24 as stated: a finished run of the worker has enqueued exactly one
\* terminal message, as its last; a run begins with an empty queue; and
\* every run that was started eventually clears `installing`.  A run whose
\* window is closed under it never does.
C24_EveryRunClearsInstalling ==
    /\ []OneTerminalLast
    /\ [][StartsClean]_vars
    /\ installing ~> ~installing

\* C24: a finished run of the worker has enqueued exactly one terminal
\* message, success or error, as its last, whichever phase failed or raised;
\* a run begins with a queue that holds nothing of an earlier run; and, the
\* worker's commands and prompt returning, every run that was started
\* eventually clears `installing` unless its window is destroyed first.
C24_OneTerminalMessage ==
    /\ []OneTerminalLast
    /\ [][StartsClean]_vars
    /\ installing ~> (~installing \/ window = "destroyed")

C24_Witness ==
    /\ Len(threads) = 2
    /\ threads[1] = "returned"
    /\ threads[2] = "returned"
    /\ emitted # << >>
    /\ emitted[Len(emitted)] = MsgException
    /\ handled = emitted
    /\ ~installing
    /\ window = "open"

-----------------------------------------------------------------------------
(* C25 *)

\* create_venv is past its prompt without having asked
PromptSkipped ==
    /\ ipc \in {"cv_rmtree", "cv_subprocess"}
    /\ \A i \in DOMAIN effects : effects[i].op # "input"

\* C25: whatever the front-end (install.py, the launcher's CLI, the GUI
\* worker) and the mode, create_venv is never called with force_recreate;
\* when the directory exists it asks, the worker of the GUI too; and
\* shutil.rmtree runs only directly after the prompt of the same run was
\* answered with a line that strip().lower() turns into 'y'.
C25_DeletionOnlyAfterYes ==
    /\ ~force_recreate
    /\ PromptSkipped => ~VenvExists
    /\ ipc = "cv_rmtree" =>
           /\ response = << "y" >>
           /\ effects # << >>
           /\ effects[Len(effects)] = Eff("input", "ok")
    /\ \A i \in DOMAIN effects :
           effects[i].op = "rmtree" =>
               /\ i > 1
               /\ effects[i - 1] = Eff("input", "ok")

C25_Witness ==
    /\ Len(threads) = 2
    /\ threads[2] = "l272"
    /\ response = << "y" >>
    /\ answer # response
    /\ effects = << Eff("input", "ok"), Eff("rmtree", "ok") >>
    /\ venv = "absent"

-----------------------------------------------------------------------------
(* C26 *)

\* launch.py has called launch_cli and the process has ended
CliLaunchEnded ==
    /\ script = "launch.py"
    /\ cli_started
    /\ pc = "exited"

\* C26: when launch.py runs the CLI front-end, because of --cli, in auto
\* mode without the toolkit, or as the fallback of a GUI launch that raised
\* (then with both mode parameters False), the process ends with status 0
\* exactly when run ended Done and with status 1 when run returned 1 or
\* raised; launch_cli is entered once at most and nothing returns to the
\* GUI after it, so the fallback happens at most once.
C26_LauncherExitStatus ==
    script = "launch.py" =>
        /\ cli_started =>
               /\ args.cli \/ fallback \/ (argv = { } /\ ~tkinter_importable)
               /\ pc \notin {"start", "launch_gui", "launch_cli",
                             "gui_mainloop"}
               /\ constructed = 1
        /\ fallback =>
               /\ gui_started
               /\ ~args.cli
               /\ run_args = DefaultRunArgs
               /\ window = "none"
               /\ threads = << >>
        /\ CliLaunchEnded =>
               /\ exit_code \in {0, 1}
               /\ exit_code = 0 <=> Done
               /\ exit_code = 1 <=> run_ret \in {"return 1", "raise"}

C26_Witness ==
    /\ CliLaunchEnded
    /\ fallback
    /\ run_ret = "raise"
    /\ exit_code = 1
    /\ Invoked("input")

====
